---- MODULE Spec2Model ----
(***************************************************************************)
(* The scroll / pause state machine of raspberry-pi-display/               *)
(* python_matrix_driver.py (main), with its helpers parse_time_string and  *)
(* get_message_width, as a state machine.                                  *)
(*                                                                         *)
(* Text is a sequence of one-character strings.  Time is counted in units  *)
(* of 1/TimeRes second and current_x_offset in units of 1/TimeRes pixel,   *)
(* so that SCROLL_SPEED_PPS * time_delta is exact and int(offset) is       *)
(* offset \div TimeRes.  time.monotonic() has no defined origin and main    *)
(* uses only differences of its readings, so the clock is read from the    *)
(* iteration that accepted the current message: accepting a message moves  *)
(* the origin to that iteration.                                           *)
(*                                                                         *)
(* The scroll loop of raspberry-pi-display/matrix_display.py (main) is a   *)
(* second program: its locals are the record display and its run is        *)
(* DisplaySpec.                                                            *)
(***************************************************************************)
EXTENDS Integers, Sequences, FiniteSets, TLC

\* ------------------------------------------------------------------ bounds
\* time units per second (the grid on which time.monotonic() is sampled)
TimeRes == 2
\* seconds of clock followed after a message is accepted
MaxSeconds == 18
\* the longest gap between two iterations, in seconds
BigSeconds == 6
\* exceptions the loop's except Exception clause may catch in one run
MaxFaults == 1

MaxTime == MaxSeconds * TimeRes
BigDelta == BigSeconds * TimeRes

\* ------------------------------------------------------- program constants
SCROLL_SPEED_PPS == 13
END_PAUSE_S == 10
\* max7219(serial, cascaded=4, ...): four 8x8 blocks side by side
Cascaded == 4
BlockSize == 8
\* every glyph of CP437_FONT is 8 columns wide
GlyphWidth == 8
\* "CP437 is mostly 6px wide, use that as fallback"
FallbackGlyphWidth == 6

DeviceWidth == Cascaded * BlockSize

\* Python's None, for variables that otherwise hold text
None == <<"None">>

\* ------------------------------------------------------------------- text
Whitespace == {" ", "\n", "\t"}
Digits == {"0", "1", "2", "3", "4", "5", "6", "7", "8", "9"}
Punctuation == {":", ".", ",", "-"}

\* \w of the re module: anything alphanumeric, or the underscore
IsWordChar(c) == c \notin Whitespace \cup Punctuation

\* str.strip(): leading and trailing whitespace removed
RECURSIVE LStrip(_)
LStrip(s) ==
    IF s # <<>> /\ Head(s) \in Whitespace THEN LStrip(Tail(s)) ELSE s

RECURSIVE RStrip(_)
RStrip(s) ==
    IF s # <<>> /\ s[Len(s)] \in Whitespace
    THEN RStrip(SubSeq(s, 1, Len(s) - 1))
    ELSE s

Strip(s) == RStrip(LStrip(s))

\* .replace('Ö', 'O').replace('ö', 'o')
ReplaceUmlauts(s) ==
    [i \in 1..Len(s) |-> IF s[i] = "Ö" THEN "O"
                         ELSE IF s[i] = "ö" THEN "o" ELSE s[i]]

\* ---------------------------------------------------- parse_time_string
\* \b at position i (between s[i-1] and s[i])
WordBoundary(s, i) ==
    (i > 1 /\ IsWordChar(s[i - 1])) # (i <= Len(s) /\ IsWordChar(s[i]))

\* $ at position j: the end of the text, or just before a final newline
AtEnd(s, j) == j = Len(s) + 1 \/ (j = Len(s) /\ s[j] = "\n")

AllIn(s, a, b, set) == \A k \in a..b : s[k] \in set

\* (\b\d+\s+min)$ started at i: the positions where the match may end
MatchMin(s, i) ==
    {j \in (i + 1)..(Len(s) + 1) :
        /\ WordBoundary(s, i)
        /\ AtEnd(s, j)
        /\ j - 3 > i
        /\ SubSeq(s, j - 3, j - 1) = <<"m", "i", "n">>
        /\ \E a \in (i + 1)..(j - 4) :
              /\ AllIn(s, i, a - 1, Digits)
              /\ AllIn(s, a, j - 4, Whitespace)}

\* \b(Nu)$ started at i
MatchNu(s, i) ==
    {j \in {i + 2} :
        /\ j <= Len(s) + 1
        /\ WordBoundary(s, i)
        /\ SubSeq(s, i, j - 1) = <<"N", "u">>
        /\ AtEnd(s, j)}

\* (\b\d{1,2}:\d{2})$ started at i
MatchClock(s, i) ==
    {j \in {i + 4, i + 5} :
        /\ j <= Len(s) + 1
        /\ WordBoundary(s, i)
        /\ AllIn(s, i, j - 4, Digits)
        /\ s[j - 3] = ":"
        /\ AllIn(s, j - 2, j - 1, Digits)
        /\ AtEnd(s, j)}

\* (\b\d+)$ started at i
MatchInt(s, i) ==
    {j \in (i + 1)..(Len(s) + 1) :
        /\ WordBoundary(s, i)
        /\ AllIn(s, i, j - 1, Digits)
        /\ AtEnd(s, j)}

\* the empty alternative after the last | of the pattern
MatchEmpty(s, i) == {i}

\* the alternatives of the pattern in their order; the first four capture
TimeAlternatives == 1..4
AltMatch(k, s, i) ==
    CASE k = 1 -> MatchMin(s, i)
      [] k = 2 -> MatchNu(s, i)
      [] k = 3 -> MatchClock(s, i)
      [] k = 4 -> MatchInt(s, i)
      [] OTHER -> MatchEmpty(s, i)

PatternAlternatives == 1..5

Min(S) == CHOOSE x \in S : \A y \in S : x <= y

NoMatch == [start |-> 0, alt |-> 0, end |-> 0]

\* re.search(pattern, s): the leftmost position where an alternative matches,
\* and at that position the first alternative that does
re_search(s) ==
    LET starts == {i \in 1..(Len(s) + 1) :
                      \E k \in PatternAlternatives : AltMatch(k, s, i) # {}}
    IN  IF starts = {} THEN NoMatch
        ELSE LET i == Min(starts)
                 k == Min({a \in PatternAlternatives : AltMatch(a, s, i) # {}})
             IN  [start |-> i, alt |-> k, end |-> Min(AltMatch(k, s, i))]

\* next((g for g in match.groups() if g is not None), None)
parse_time_string(message) ==
    IF message = <<>> THEN None
    ELSE LET m == re_search(message)
         IN  IF m = NoMatch THEN None
             ELSE IF m.alt \in TimeAlternatives
                  THEN SubSeq(message, m.start, m.end - 1)
                  ELSE None

\* --------------------------------------------------- get_message_width
\* textsize adds up the columns of font[ord(ch)]; CP437_FONT has 256 glyphs
\* and a character beyond them raises, which the except clause estimates
OutsideFont == {"€"}

get_message_width(message) ==
    IF message = <<>> THEN 0
    ELSE IF \E i \in 1..Len(message) : message[i] \in OutsideFont
         THEN Len(message) * FallbackGlyphWidth
         ELSE GlyphWidth * Len(message)

\* ------------------------------------------------------------- inputs
\* what sys.stdin.readline() may return: a line with its newline
Lines ==
    { <<"3", " ", "m", "i", "n", "\n">>,
      <<"H", "e", "l", "l", "o", "\n">>,
      <<"N", "u", "\n">>,
      <<" ", "K", "ö", "r", " ", "N", "u", "\n">>,
      <<"\n">> }

Starting == <<"S", "t", "a", "r", "t", "i", "n", "g", ".", ".", ".">>

\* every text main hands to parse_time_string, and parse_time_string on
\* each of them, computed once
Texts == {ReplaceUmlauts(Strip(l)) : l \in Lines} \cup {Starting}
TimeStringOf == [message \in Texts |-> parse_time_string(message)]

\* time between the time.monotonic() readings of two iterations, in time units
Deltas == {1, 3, BigDelta}

\* ------------------------------------------------------------------ state
VARIABLES
    pc,                  \* where main is: "loop", "recover", "finished", "exited", "aborted"
    cleared,             \* device.clear() has been called
    time_now,
    line,                \* the line this iteration read; None when stdin was not readable
    next_message,
    current_message,
    display_message,
    message_pixel_width,
    time_string,
    current_x_offset,
    last_update_time,
    state,
    pause_start_time,
    pause_draw_x,
    draw_x,
    frame,               \* what this iteration drew inside canvas(device)
    outcome,             \* how this iteration ended
    scroll_start_time,   \* history: time_now of the iteration that accepted the message
    pause_entries,       \* history: entries into "paused" since the message was accepted
    faults,              \* history: exceptions caught by the loop so far
    phase_before,        \* history: state when this iteration began
    display              \* the locals of main of matrix_display.py, as one record

ctl_vars == <<next_message, current_message, display_message, message_pixel_width,
              time_string, current_x_offset, last_update_time, state,
              pause_start_time, pause_draw_x, draw_x, scroll_start_time,
              pause_entries>>

driver_vars ==
    <<pc, cleared, time_now, line, frame, outcome, faults, phase_before, ctl_vars>>

vars == <<driver_vars, display>>

NoFrame == [kind |-> "none", x |-> 0, text |-> <<>>]

\* the locals of main the state machine works on, as one record
Locals ==
    [next_message |-> next_message,
     current_message |-> current_message,
     display_message |-> display_message,
     message_pixel_width |-> message_pixel_width,
     time_string |-> time_string,
     current_x_offset |-> current_x_offset,
     last_update_time |-> last_update_time,
     state |-> state,
     pause_start_time |-> pause_start_time,
     pause_draw_x |-> pause_draw_x,
     draw_x |-> draw_x,
     scroll_start_time |-> scroll_start_time,
     pause_entries |-> pause_entries,
     continued |-> FALSE]

Store(s) ==
    /\ next_message' = s.next_message
    /\ current_message' = s.current_message
    /\ display_message' = s.display_message
    /\ message_pixel_width' = s.message_pixel_width
    /\ time_string' = s.time_string
    /\ current_x_offset' = s.current_x_offset
    /\ last_update_time' = s.last_update_time
    /\ state' = s.state
    /\ pause_start_time' = s.pause_start_time
    /\ pause_draw_x' = s.pause_draw_x
    /\ draw_x' = s.draw_x
    /\ scroll_start_time' = s.scroll_start_time
    /\ pause_entries' = s.pause_entries

\* ------------------------------------------- matrix_display.py: constants
\* scroll_speed_pps = 30
scroll_speed_pps == 30
\* --cascaded, default=1
DefaultCascaded == 1
\* the values of --cascaded followed: the default and the four blocks of the
\* display python_matrix_driver.py drives
DisplayCascades == {DefaultCascaded, Cascaded}

Waiting ==
    <<"W", "a", "i", "t", "i", "n", "g", " ", "f", "o", "r", " ",
      "d", "a", "t", "a", ".", ".", ".">>

\* matrix_display.py, lines 16-24: the width the font gives, or the estimate
\* of the except clause when the call raises
DisplayMessageWidth(message, raises) ==
    IF raises THEN Len(message) * FallbackGlyphWidth
    ELSE GlyphWidth * Len(message)

\* matrix_display.py, lines 26-56: main up to its loop, for a device of
\* c blocks; raises says whether the width call of get_message_width fails
DisplayInit(c, raises) ==
    [pc |-> "loop",
     width |-> c * BlockSize,
     width_raises |-> raises,
     line |-> None,
     current_message |-> Waiting,
     last_update_time |-> 0,
     current_x_offset |-> 0,
     message_width |-> 0,
     time_now |-> 0,
     scrolled |-> 0,
     wrapped |-> FALSE,
     draw_x |-> 0,
     drawn |-> FALSE,
     cleared |-> FALSE]

\* ------------------------------------------------ python_matrix_driver.py
DriverInit ==
    /\ pc = "loop"
    /\ cleared = FALSE
    /\ time_now = 0
    /\ line = None
    /\ next_message = None
    /\ current_message = Starting
    /\ display_message = Starting
    /\ message_pixel_width = get_message_width(Starting)
    /\ time_string = TimeStringOf[Starting]
    /\ current_x_offset = 0
    /\ last_update_time = 0
    /\ state = "idle_after_pause"
    /\ pause_start_time = 0
    /\ pause_draw_x = 0
    /\ draw_x = 0
    /\ frame = NoFrame
    /\ outcome = "start"
    /\ scroll_start_time = 0
    /\ pause_entries = 0
    /\ faults = 0
    /\ phase_before = "idle_after_pause"

Init == DriverInit /\ display = DisplayInit(DefaultCascaded, FALSE)

\* ---------------------------------------------------------- one iteration
\* lines 106-115: the stripped line goes into the buffer, an empty one as ""
ReadStdin(s, ln) ==
    LET new_msg_from_stdin == Strip(ln)
    IN  IF new_msg_from_stdin # <<>>
        THEN [s EXCEPT !.next_message = new_msg_from_stdin]
        ELSE [s EXCEPT !.next_message = <<>>]

\* AcceptMessage that forgets current_x_offset = 0.0
AcceptMessageKeepsOffset(s, now) ==
    LET shown == ReplaceUmlauts(s.next_message)
    IN  [s EXCEPT !.current_message = s.next_message,
                  !.display_message = shown,
                  !.next_message = None,
                  !.message_pixel_width = get_message_width(shown),
                  !.time_string = TimeStringOf[shown],
                  !.last_update_time = now,
                  !.state = "scrolling",
                  !.pause_start_time = 0,
                  !.pause_draw_x = 0,
                  !.scroll_start_time = now,
                  !.pause_entries = 0]

\* the block repeated at lines 126-137, 143-154 and 206-217
AcceptMessage(s, now) ==
    LET shown == ReplaceUmlauts(s.next_message)
    IN  [s EXCEPT !.current_message = s.next_message,
                  !.display_message = shown,
                  !.next_message = None,
                  !.message_pixel_width = get_message_width(shown),
                  !.time_string = TimeStringOf[shown],
                  !.current_x_offset = 0,
                  !.last_update_time = now,
                  !.state = "scrolling",
                  !.pause_start_time = 0,
                  !.pause_draw_x = 0,
                  !.scroll_start_time = now,
                  !.pause_entries = 0]

\* Python truth of a str-or-None value
Truthy(v) == v # None /\ v # <<>>

\* Integrate that forgets last_update_time = time_now
IntegrateNoStamp(s, now) ==
    [s EXCEPT !.current_x_offset = @ + SCROLL_SPEED_PPS * (now - s.last_update_time)]

\* lines 160-162
Integrate(s, now) ==
    [s EXCEPT !.current_x_offset = @ + SCROLL_SPEED_PPS * (now - s.last_update_time),
              !.last_update_time = now]

\* int(current_x_offset), for an offset that is never negative
IntOf(offset) == offset \div TimeRes

\* ScrollDecision with the off-screen test before the pause test
ScrollDecisionOffFirst(ts, width, offset, dx) ==
    LET end_pause_trigger_offset == (width - DeviceWidth) * TimeRes
    IN  IF dx < -width THEN "idle"
        ELSE IF Truthy(ts) /\ width > DeviceWidth /\ offset >= end_pause_trigger_offset
             THEN "pause"
             ELSE "stay"

\* ScrollDecision without message_pixel_width > device.width
ScrollDecisionAnyWidth(ts, width, offset, dx) ==
    LET end_pause_trigger_offset == (width - DeviceWidth) * TimeRes
    IN  IF Truthy(ts) /\ offset >= end_pause_trigger_offset
        THEN "pause"
        ELSE IF dx < -width THEN "idle" ELSE "stay"

\* ScrollDecision that goes idle once the left end leaves the display
ScrollDecisionEarlyIdle(ts, width, offset, dx) ==
    LET end_pause_trigger_offset == (width - DeviceWidth) * TimeRes
    IN  IF Truthy(ts) /\ width > DeviceWidth /\ offset >= end_pause_trigger_offset
        THEN "pause"
        ELSE IF dx < 0 THEN "idle" ELSE "stay"

\* ScrollDecision that never takes a message without width off the display
ScrollDecisionNeedsWidth(ts, width, offset, dx) ==
    LET end_pause_trigger_offset == (width - DeviceWidth) * TimeRes
    IN  IF Truthy(ts) /\ width > DeviceWidth /\ offset >= end_pause_trigger_offset
        THEN "pause"
        ELSE IF width > 0 /\ dx < -width THEN "idle" ELSE "stay"

\* lines 170 and 176-190: what the scrolling branch does with the new offset
ScrollDecision(ts, width, offset, dx) ==
    LET end_pause_trigger_offset == (width - DeviceWidth) * TimeRes
    IN  IF Truthy(ts) /\ width > DeviceWidth /\ offset >= end_pause_trigger_offset
        THEN "pause"
        ELSE IF dx < -width THEN "idle" ELSE "stay"

\* ScrollingBranch that starts the offset anew when it pauses
ScrollingBranchResetsOnPause(s, now) ==
    IF s.next_message # None
    THEN [AcceptMessage(s, now) EXCEPT !.continued = TRUE]
    ELSE LET a == Integrate(s, now)
             dx == DeviceWidth - IntOf(a.current_x_offset)
             b == [a EXCEPT !.draw_x = dx]
             what == ScrollDecision(b.time_string, b.message_pixel_width,
                                    b.current_x_offset, dx)
         IN  CASE what = "pause" ->
                    [b EXCEPT !.pause_draw_x = DeviceWidth - b.message_pixel_width,
                              !.state = "paused",
                              !.pause_start_time = now,
                              !.current_x_offset = 0,
                              !.pause_entries = @ + 1]
               [] what = "idle" ->
                    [b EXCEPT !.state = "idle_after_pause",
                              !.display_message = <<>>]
               [] OTHER -> b

\* lines 139-190
ScrollingBranch(s, now) ==
    IF s.next_message # None
    THEN [AcceptMessage(s, now) EXCEPT !.continued = TRUE]
    ELSE LET a == Integrate(s, now)
             dx == DeviceWidth - IntOf(a.current_x_offset)
             b == [a EXCEPT !.draw_x = dx]
             what == ScrollDecision(b.time_string, b.message_pixel_width,
                                    b.current_x_offset, dx)
         IN  CASE what = "pause" ->
                    [b EXCEPT !.pause_draw_x = DeviceWidth - b.message_pixel_width,
                              !.state = "paused",
                              !.pause_start_time = now,
                              !.pause_entries = @ + 1]
               [] what = "idle" ->
                    [b EXCEPT !.state = "idle_after_pause",
                              !.display_message = <<>>]
               [] OTHER -> b

\* PauseOver with > for >=
PauseOverStrict(now, start) == now - start > END_PAUSE_S * TimeRes

\* line 197
PauseOver(now, start) == now - start >= END_PAUSE_S * TimeRes

\* PausedBranch without the check of the buffer at lines 204-217
PausedBranchKeepsBuffer(s, now) ==
    LET a == [s EXCEPT !.draw_x = s.pause_draw_x]
    IN  IF PauseOver(now, a.pause_start_time)
        THEN [a EXCEPT !.state = "idle_after_pause", !.display_message = <<>>]
        ELSE a

\* lines 192-217
PausedBranch(s, now) ==
    LET a == [s EXCEPT !.draw_x = s.pause_draw_x]
        b == IF PauseOver(now, a.pause_start_time)
             THEN [a EXCEPT !.state = "idle_after_pause", !.display_message = <<>>]
             ELSE a
    IN  IF b.next_message # None THEN AcceptMessage(b, now) ELSE b

\* IdleBranch that leaves draw_x as it was
IdleBranchHolds(s) == s

\* lines 219-225
IdleBranch(s) ==
    [s EXCEPT !.draw_x = IF s.display_message # <<>> THEN s.pause_draw_x ELSE 0]

\* lines 124-225: the idle arrival, then the if / elif chain on the state
StateMachine(s, now) ==
    LET a == IF s.state = "idle_after_pause" /\ s.next_message # None
             THEN AcceptMessage(s, now)
             ELSE s
    IN  CASE a.state = "scrolling" -> ScrollingBranch(a, now)
          [] a.state = "paused" -> PausedBranch(a, now)
          [] OTHER -> IdleBranch(a)

\* DrawFrame that draws nothing while the loop is idle
DrawFrameBlankWhenIdle(s) ==
    IF s.display_message # <<>> /\ s.state # "idle_after_pause"
    THEN [kind |-> "text", x |-> s.draw_x, text |-> s.display_message]
    ELSE [kind |-> "blank", x |-> 0, text |-> <<>>]

\* lines 227-232
DrawFrame(s) ==
    IF s.display_message # <<>>
    THEN [kind |-> "text", x |-> s.draw_x, text |-> s.display_message]
    ELSE [kind |-> "blank", x |-> 0, text |-> <<>>]

\* lines 97-225 for an iteration that reads ln (None: stdin not readable)
Body(now, ln) ==
    StateMachine(IF ln = None THEN Locals ELSE ReadStdin(Locals, ln), now)

Inputs == Lines \cup {None}

\* the clock read from the iteration that accepted a message: time_now
\* becomes 0 there, and the times main remembered move with it
Rebase(s, now) ==
    [s EXCEPT !.last_update_time = @ - now,
              !.scroll_start_time = @ - now]

\* the iteration may start: a quiet one within the clock's bound
MayStart(dt, ln) == ln # None \/ time_now + dt <= MaxTime

Clock(dt, ln) == IF ln = None THEN time_now + dt ELSE 0

Result(dt, ln) ==
    LET s == Body(time_now + dt, ln)
    IN  IF ln = None THEN s ELSE Rebase(s, time_now + dt)

\* an iteration that runs to its end: the frame is drawn, unless the
\* scrolling branch took its continue
Tick(dt, ln) ==
    /\ pc = "loop"
    /\ MayStart(dt, ln)
    /\ time_now' = Clock(dt, ln)
    /\ line' = ln
    /\ \E s \in {Result(dt, ln)} :
           /\ Store(s)
           /\ frame' = IF s.continued THEN NoFrame ELSE DrawFrame(s)
           /\ outcome' = IF s.continued THEN "continued" ELSE "drawn"
    /\ phase_before' = state
    /\ UNCHANGED <<pc, cleared, faults, display>>

\* TickDrawError whose handler gives the message up
TickDrawErrorAbandons(dt, ln) ==
    /\ pc = "loop"
    /\ faults < MaxFaults
    /\ faults' = faults + 1
    /\ MayStart(dt, ln)
    /\ time_now' = Clock(dt, ln)
    /\ line' = ln
    /\ \E s \in {Result(dt, ln)} :
           /\ ~s.continued
           /\ Store([s EXCEPT !.state = "idle_after_pause",
                              !.display_message = <<>>])
    /\ frame' = NoFrame
    /\ outcome' = "draw_error"
    /\ phase_before' = state
    /\ pc' = "recover"
    /\ UNCHANGED <<cleared, display>>

\* canvas / text raises: except Exception, then time.sleep(1)
TickDrawError(dt, ln) ==
    /\ pc = "loop"
    /\ faults < MaxFaults
    /\ faults' = faults + 1
    /\ MayStart(dt, ln)
    /\ time_now' = Clock(dt, ln)
    /\ line' = ln
    /\ \E s \in {Result(dt, ln)} :
           /\ ~s.continued
           /\ Store(s)
    /\ frame' = NoFrame
    /\ outcome' = "draw_error"
    /\ phase_before' = state
    /\ pc' = "recover"
    /\ UNCHANGED <<cleared, display>>

\* select or readline raises: except Exception, then time.sleep(1)
TickReadError(dt) ==
    /\ pc = "loop"
    /\ faults < MaxFaults
    /\ faults' = faults + 1
    /\ time_now + dt <= MaxTime
    /\ time_now' = time_now + dt
    /\ line' = None
    /\ frame' = NoFrame
    /\ outcome' = "read_error"
    /\ phase_before' = state
    /\ pc' = "recover"
    /\ UNCHANGED <<cleared, ctl_vars, display>>

\* readline returns "": break
TickEOF(dt) ==
    /\ pc = "loop"
    /\ time_now + dt <= MaxTime
    /\ time_now' = time_now + dt
    /\ line' = <<>>
    /\ frame' = NoFrame
    /\ outcome' = "eof"
    /\ phase_before' = state
    /\ pc' = "finished"
    /\ UNCHANGED <<cleared, faults, ctl_vars, display>>

\* KeyboardInterrupt inside the try block (here: while select waits): break
TickInterrupted(dt) ==
    /\ pc = "loop"
    /\ time_now + dt <= MaxTime
    /\ time_now' = time_now + dt
    /\ line' = None
    /\ frame' = NoFrame
    /\ outcome' = "interrupt"
    /\ phase_before' = state
    /\ pc' = "finished"
    /\ UNCHANGED <<cleared, faults, ctl_vars, display>>

\* time.sleep(1) of the except Exception handler returns
RecoverDone ==
    /\ pc = "recover"
    /\ pc' = "loop"
    /\ UNCHANGED <<cleared, time_now, line, frame, outcome, faults, phase_before,
                   ctl_vars, display>>

\* KeyboardInterrupt during that sleep: raised inside a handler, it is
\* caught by no except clause of the same try and leaves main
RecoverInterrupted ==
    /\ pc = "recover"
    /\ pc' = "aborted"
    /\ UNCHANGED <<cleared, time_now, line, frame, outcome, faults, phase_before,
                   ctl_vars, display>>

\* lines 244-250, after the loop
Cleanup ==
    /\ pc = "finished"
    /\ cleared' = TRUE
    /\ pc' = "exited"
    /\ UNCHANGED <<time_now, line, frame, outcome, faults, phase_before, ctl_vars,
                   display>>

Next ==
    \/ \E dt \in Deltas, ln \in Inputs : Tick(dt, ln)
    \/ \E dt \in Deltas, ln \in Inputs : TickDrawError(dt, ln)
    \/ \E dt \in Deltas : TickReadError(dt)
    \/ \E dt \in Deltas : TickEOF(dt)
    \/ \E dt \in Deltas : TickInterrupted(dt)
    \/ RecoverDone
    \/ RecoverInterrupted
    \/ Cleanup

Spec == Init /\ [][Next]_vars

\* The polling loop keeps iterating: select returns after SELECT_TIMEOUT at
\* the latest and time.sleep(1) returns.  No input ends and no fault stops
\* the loop here.
QuietTick == \E dt \in Deltas : Tick(dt, None)

NextLive ==
    \/ \E dt \in Deltas, ln \in Inputs : Tick(dt, ln)
    \/ \E dt \in Deltas, ln \in Inputs : TickDrawError(dt, ln)
    \/ RecoverDone

LiveSpec ==
    Init /\ [][NextLive]_vars /\ WF_vars(QuietTick) /\ WF_vars(RecoverDone)

\* ------------------------------------------------------- matrix_display.py
\* line 92
reset_scroll_threshold(message_width, width) ==
    IF message_width > width THEN message_width ELSE width

\* lines 68-79: what a read line does to the locals; an empty one nothing
DisplayRead(d, ln, now) ==
    LET new_message == IF ln = None THEN <<>> ELSE Strip(ln)
    IN  IF new_message # <<>>
        THEN [d EXCEPT !.line = ln,
                       !.current_message = new_message,
                       !.current_x_offset = 0,
                       !.last_update_time = now]
        ELSE [d EXCEPT !.line = ln]

\* lines 82-97: the offset advances, starts anew past the threshold, and
\* gives draw_x
DisplayScroll(d, now) ==
    LET message_width == DisplayMessageWidth(d.current_message, d.width_raises)
        time_delta == now - d.last_update_time
        offset == d.current_x_offset + scroll_speed_pps * time_delta
        over == offset > reset_scroll_threshold(message_width, d.width) * TimeRes
        wrapped_offset == IF over THEN 0 ELSE offset
    IN  [d EXCEPT !.message_width = message_width,
                  !.time_now = now,
                  !.last_update_time = now,
                  !.scrolled = offset,
                  !.wrapped = over,
                  !.current_x_offset = wrapped_offset,
                  !.draw_x = d.width - IntOf(wrapped_offset)]

\* lines 63-102: one iteration that draws its frame; the two readings of
\* time.monotonic() at lines 79 and 83 fall on the same time unit
DisplayTick(dt, ln) ==
    /\ display.pc = "loop"
    /\ display.time_now + dt <= MaxTime
    /\ LET now == display.time_now + dt
       IN  display' = [DisplayScroll(DisplayRead(display, ln, now), now)
                          EXCEPT !.drawn = TRUE]
    /\ UNCHANGED driver_vars

\* lines 70-72: readline returns "", break
DisplayEOF ==
    /\ display.pc = "loop"
    /\ display' = [display EXCEPT !.pc = "finished", !.line = <<>>,
                                  !.wrapped = FALSE, !.drawn = FALSE]
    /\ UNCHANGED driver_vars

\* lines 108-111: KeyboardInterrupt or any exception of the iteration, the
\* draw call included, ends the loop: the try is around the while
DisplayFault ==
    /\ display.pc = "loop"
    /\ display' = [display EXCEPT !.pc = "finished",
                                  !.wrapped = FALSE, !.drawn = FALSE]
    /\ UNCHANGED driver_vars

\* lines 112-118: finally, device.clear()
DisplayCleanup ==
    /\ display.pc = "finished"
    /\ display' = [display EXCEPT !.pc = "exited", !.cleared = TRUE]
    /\ UNCHANGED driver_vars

DisplayStart ==
    /\ DriverInit
    /\ \E c \in DisplayCascades, raises \in BOOLEAN :
           display = DisplayInit(c, raises)

DisplayNext ==
    \/ \E dt \in Deltas, ln \in Inputs : DisplayTick(dt, ln)
    \/ DisplayEOF
    \/ DisplayFault
    \/ DisplayCleanup

DisplaySpec == DisplayStart /\ [][DisplayNext]_vars

\* ---------------------------------------------------------------- claims
\* the iteration ran the state machine to its end
Ticked == outcome \in {"drawn", "continued", "draw_error"}

\* the iteration read a line, and the line holds a message / holds none
ReadMessage == Ticked /\ line # None /\ Strip(line) # <<>>
ReadEmptyLine == Ticked /\ line # None /\ Strip(line) = <<>>

\* C1: an iteration that reads a non-empty line ends, whatever the phase
\* before it, with state = "scrolling", current_x_offset = 0 and
\* display_message, message_pixel_width and time_string those of that line.
C1_ArrivalRestartsScroll ==
    ReadMessage =>
        /\ state = "scrolling"
        /\ current_x_offset = 0
        /\ current_message = Strip(line)
        /\ display_message = ReplaceUmlauts(Strip(line))
        /\ message_pixel_width = get_message_width(ReplaceUmlauts(Strip(line)))
        /\ time_string = parse_time_string(ReplaceUmlauts(Strip(line)))

\* a message arrives during the pause of another one
C1_Witness ==
    /\ ReadMessage
    /\ phase_before = "paused"
    /\ outcome = "drawn"
    /\ state = "scrolling"

\* C2: an iteration that reads an empty line ends, whatever the phase
\* before it, in idle_after_pause with a blank display_message.
C2_EmptyLineIdles ==
    ReadEmptyLine => state = "idle_after_pause" /\ display_message = <<>>

\* an empty line has been read and its iteration is over
C2_Witness == ReadEmptyLine /\ display_message = <<>>

\* the active message pauses: it has a time string and is wider than the display
Pausing == Truthy(time_string) /\ message_pixel_width > DeviceWidth

\* C3: with no further arrival, a message with a time string that is wider
\* than the display leaves "scrolling" only into "paused", enters "paused"
\* for the first time since it was accepted, and reaches idle_after_pause
\* only from "paused", however long the time between two iterations.
C3_PausesOnceBeforeIdle ==
    [][(Pausing /\ Ticked' /\ line' = None) =>
          /\ (state = "scrolling" => state' \in {"scrolling", "paused"})
          /\ (state # "paused" /\ state' = "paused" => pause_entries' = 1)
          /\ (state # "idle_after_pause" /\ state' = "idle_after_pause"
                 => state = "paused" /\ pause_entries = 1)]_vars

\* such a message is back in idle after its one pause
C3_Witness ==
    /\ Pausing
    /\ state = "idle_after_pause"
    /\ phase_before = "paused"
    /\ pause_entries = 1
    /\ line = None

\* C4: every frame drawn while the state is "paused", the frame of the
\* iteration that enters "paused" included, draws the message at
\* device.width - message_pixel_width.
C4_PausedFrameFrozen ==
    (outcome = "drawn" /\ state = "paused" /\ frame.kind = "text")
        => frame.x = DeviceWidth - message_pixel_width

\* a frame drawn by the iteration that entered "paused"
C4_Witness ==
    /\ outcome = "drawn"
    /\ state = "paused"
    /\ phase_before = "scrolling"
    /\ frame.kind = "text"

\* a message without time string scrolls and an iteration has passed
\* since it was accepted
ScrollingPlain == state = "scrolling" /\ ~Truthy(time_string) /\ line = None

\* C5: a message without time string, with no further arrival and the
\* loop iterating, reaches idle_after_pause; it leaves "scrolling" only for
\* idle_after_pause and only with draw_x < -message_pixel_width; it is
\* never in "paused".
C5_PlainScrollsOff ==
    /\ ScrollingPlain ~> (state = "idle_after_pause" \/ line # None)
    /\ [][(~Truthy(time_string) /\ state = "scrolling" /\ Ticked' /\ line' = None
             /\ state' # "scrolling")
            => (state' = "idle_after_pause" /\ draw_x' < -message_pixel_width')]_vars
    /\ [](~Truthy(time_string) => state # "paused")

\* a message without time string has scrolled off and left the loop idle
C5_Witness ==
    /\ ~Truthy(time_string)
    /\ current_message # Starting
    /\ message_pixel_width > 0
    /\ phase_before = "scrolling"
    /\ state = "idle_after_pause"
    /\ draw_x < -message_pixel_width
    /\ line = None

\* C6: in "paused" the active message has a time string and is strictly
\* wider than the display.
C6_PausedOnlyWideTimed ==
    state = "paused" => (time_string # None /\ message_pixel_width > DeviceWidth)

\* the loop is in "paused"
C6_Witness == state = "paused" /\ outcome = "drawn"

\* the places of msg where one of the four time tokens starts and runs to
\* the end of msg
TokenStarts(msg) ==
    {i \in 1..Len(msg) : \E k \in TimeAlternatives : AltMatch(k, msg, i) # {}}

\* C7: parse_time_string returns the time token the message ends with,
\* whatever precedes it, and None when the message ends with none.
C7_ParsesTrailingToken ==
    LET msg == ReplaceUmlauts(current_message)
    IN  IF TokenStarts(msg) # {}
        THEN time_string \in {SubSeq(msg, i, Len(msg)) : i \in TokenStarts(msg)}
        ELSE time_string = None

\* a message that ends with a time token after other text has been accepted
C7_Witness ==
    LET msg == ReplaceUmlauts(current_message)
    IN  /\ current_message # Starting
        /\ TokenStarts(msg) # {}
        /\ 1 \notin TokenStarts(msg)

\* C8: of two different messages read by two iterations in a row, the
\* first is never passed to a draw call.
C8_OnlySecondDrawn ==
    [][(ReadMessage /\ ReadMessage' /\ Strip(line') # Strip(line))
         => ~(frame.kind = "text" /\ frame.text = ReplaceUmlauts(Strip(line)))]_vars

\* a second message has been read by the iteration after the one that read
\* the first
C8_Witness == ReadMessage /\ phase_before = "scrolling" /\ time_now = 0 /\ current_x_offset = 0
                /\ outcome = "continued"

\* C9: while a message scrolls, after every iteration current_x_offset is
\* SCROLL_SPEED_PPS times the time since the iteration that accepted it,
\* and after every iteration that integrated (one that read no line) draw_x
\* is device.width - int() of that, however the time was cut into iterations.
C9_OffsetIsSpeedTimesElapsed ==
    (Ticked /\ state = "scrolling") =>
        /\ current_x_offset = SCROLL_SPEED_PPS * (time_now - scroll_start_time)
        /\ line = None =>
              draw_x = DeviceWidth
                         - IntOf(SCROLL_SPEED_PPS * (time_now - scroll_start_time))

\* a message has scrolled through iterations of different lengths, one of
\* them lost to an exception before the state machine ran
C9_Witness ==
    /\ Ticked
    /\ state = "scrolling"
    /\ line = None
    /\ faults > 0
    /\ current_x_offset >= 3 * SCROLL_SPEED_PPS
    /\ current_x_offset % TimeRes # 0

\* C10: on every way out of the loop the display is blanked with
\* device.clear() before the program ends.
C10_ExitBlanksDisplay ==
    pc \in {"exited", "aborted"} => cleared

\* the program has ended
C10_Witness == pc \in {"exited", "aborted"}

\* C11: an exception raised by select or readline is taken as the end of
\* the input: after it no iteration starts again, the loop is left.
C11_ReadErrorEndsLoop ==
    [][outcome = "read_error" => pc' # "loop"]_vars

\* select or readline has raised
C11_Witness == outcome = "read_error" /\ pc = "recover"

\* C12: every frame that draws a scrolling message draws it at the draw_x
\* of that message's own offset; the frame of the iteration that accepts a
\* message during a pause draws it at device.width.
C12_FrameUsesOwnOffset ==
    (outcome = "drawn" /\ frame.kind = "text" /\ state = "scrolling")
        => frame.x = DeviceWidth - IntOf(current_x_offset)

\* a frame drawn by the iteration that accepted a message during a pause
C12_Witness ==
    /\ ReadMessage
    /\ phase_before = "paused"
    /\ frame.kind = "text"
    /\ frame.text = display_message

\* C13: every iteration that runs to its end without leaving the loop
\* commits one frame, the one that accepts a message while another scrolls
\* included.
C13_EveryTickDraws ==
    outcome \in {"drawn", "continued"} => frame.kind # "none"

\* an iteration has accepted a message while another one scrolled
C13_Witness == outcome = "continued" /\ phase_before = "scrolling" /\ line # None

\* no line has been accepted yet: current_message is still the default
BeforeFirstArrival == current_message = Starting

\* C14 as stated: before the first message arrives the loop is idle with no
\* active message and every frame it commits is blank.
C14_BlankBeforeFirstArrival ==
    (BeforeFirstArrival /\ outcome = "drawn")
        => (state = "idle_after_pause" /\ frame.kind = "blank")

\* C14 amended: before the first message arrives the loop is idle and its
\* display_message is the default "Starting...": every frame it commits
\* draws that text at x = 0.
C14_StartingBeforeFirstArrival ==
    BeforeFirstArrival =>
        /\ state = "idle_after_pause"
        /\ display_message = Starting
        /\ outcome = "drawn" =>
               frame = [kind |-> "text", x |-> 0, text |-> Starting]

\* a frame has been committed before any line was accepted
C14_Witness ==
    /\ BeforeFirstArrival
    /\ outcome = "drawn"
    /\ phase_before = "idle_after_pause"
    /\ frame.kind = "text"

\* C15: when no line arrives, an iteration that starts in the pause leaves
\* it, for idle and with display_message cleared, exactly when its time_now
\* is at least END_PAUSE_S after pause_start_time, and pause_start_time is
\* the time_now of the iteration that entered the pause.
C15_PauseEndsAtEndPause ==
    [][(pc = "loop" /\ Ticked' /\ line' = None) =>
          /\ (state = "paused" /\
                  time_now' - pause_start_time >= END_PAUSE_S * TimeRes)
                => (state' = "idle_after_pause" /\ display_message' = <<>>)
          /\ (state = "paused" /\
                  time_now' - pause_start_time < END_PAUSE_S * TimeRes)
                => (state' = "paused" /\ display_message' = display_message)
          /\ (state # "paused" /\ state' = "paused")
                => pause_start_time' = time_now']_vars

\* the pause has ended on the iteration exactly END_PAUSE_S after its start
C15_Witness ==
    /\ outcome = "drawn"
    /\ line = None
    /\ phase_before = "paused"
    /\ state = "idle_after_pause"
    /\ display_message = <<>>
    /\ time_now - pause_start_time = END_PAUSE_S * TimeRes

\* C16: next_message is None at the end of every iteration, whatever was
\* read and in whichever state.
C16_BufferEmptyAfterTick == next_message = None

\* a line was read during a pause and the iteration has ended
C16_Witness ==
    /\ Ticked
    /\ line # None
    /\ phase_before = "paused"
    /\ next_message = None

\* the loop is idle and shows nothing
IdleBlank == state = "idle_after_pause" /\ display_message = <<>>

\* C17: once a line has been accepted, whatever its time string and its
\* width (0 included), with no further line and the loop iterating the loop
\* gets to idle_after_pause with a blank display_message, and it stays
\* there for as long as no line arrives.
C17_EveryMessageEndsIdle ==
    /\ (~BeforeFirstArrival /\ line = None) ~> (IdleBlank \/ line # None)
    /\ [][(IdleBlank /\ line' = None) => IdleBlank']_vars

\* the blank message of an empty line, of width 0, has left the loop idle
C17_Witness ==
    /\ current_message = <<>>
    /\ message_pixel_width = 0
    /\ phase_before = "scrolling"
    /\ IdleBlank
    /\ line = None

\* the offset after an iteration that read nothing: advanced by the elapsed
\* time while scrolling, as it was otherwise
OffsetCarried(offset, was, now, last) ==
    IF was = "scrolling"
    THEN offset + SCROLL_SPEED_PPS * (now - last)
    ELSE offset

\* C18: an iteration sets current_x_offset to 0 when, and only when, it
\* accepts a line and so enters "scrolling"; an iteration that reads nothing
\* leaves the offset as the elapsed time made it, also when it enters
\* "paused" or idle_after_pause.
C18_OffsetZeroOnlyOnArrival ==
    [][(pc = "loop" /\ Ticked') =>
          IF line' # None
          THEN current_x_offset' = 0 /\ state' = "scrolling"
          ELSE /\ current_x_offset' =
                     OffsetCarried(current_x_offset, state, time_now',
                                   last_update_time)
               /\ state = "scrolling" => current_x_offset' > 0]_vars

\* an iteration has entered the pause and the offset is what it had reached
C18_Witness ==
    /\ outcome = "drawn"
    /\ line = None
    /\ phase_before = "scrolling"
    /\ state = "paused"
    /\ current_x_offset >= (message_pixel_width - DeviceWidth) * TimeRes
    /\ current_x_offset > 0

\* the state after the step is the one the state machine computes from the
\* state before it, for time step dt and read line ln
UpdatedBy(dt, ln) ==
    LET s == Result(dt, ln)
    IN  /\ state' = s.state
        /\ current_message' = s.current_message
        /\ display_message' = s.display_message
        /\ time_string' = s.time_string
        /\ message_pixel_width' = s.message_pixel_width
        /\ current_x_offset' = s.current_x_offset
        /\ pause_start_time' = s.pause_start_time
        /\ pause_draw_x' = s.pause_draw_x

\* C19: an iteration whose frame fails to draw leaves state, message and
\* offset as its state machine set them, and the loop goes on: the sleep of
\* the handler, unless interrupted, returns to the loop with all of them
\* as they were.
C19_DrawErrorKeepsState ==
    /\ [][(pc = "loop" /\ outcome' = "draw_error") =>
             (pc' = "recover" /\ \E dt \in Deltas : UpdatedBy(dt, line'))]_vars
    /\ [][(pc = "recover" /\ outcome = "draw_error" /\ pc' # "aborted") =>
             (pc' = "loop" /\ UNCHANGED ctl_vars)]_vars

\* a frame of a scrolling message failed and the loop is running again
C19_Witness ==
    /\ outcome = "draw_error"
    /\ pc = "loop"
    /\ state = "scrolling"
    /\ display_message # <<>>
    /\ current_x_offset > 0

\* C20 as stated: an idle iteration that reads nothing leaves the loop idle
\* and draw_x at the value of the iteration before it.
C20_IdleKeepsDrawX ==
    [][(pc = "loop" /\ state = "idle_after_pause" /\ Ticked' /\ line' = None)
          => (state' = "idle_after_pause" /\ draw_x' = draw_x)]_vars

\* C20 amended: an idle iteration that reads nothing leaves the loop idle
\* and message and offset as they were; it sets draw_x to 0 when
\* display_message is blank and to pause_draw_x when it is not.
C20_IdleSetsDrawX ==
    [][(pc = "loop" /\ state = "idle_after_pause" /\ Ticked' /\ line' = None)
          => /\ state' = "idle_after_pause"
             /\ display_message' = display_message
             /\ current_x_offset' = current_x_offset
             /\ draw_x' = IF display_message # <<>> THEN pause_draw_x ELSE 0]_vars

\* an idle iteration has run after a message had scrolled off
C20_Witness ==
    /\ outcome = "drawn"
    /\ line = None
    /\ phase_before = "idle_after_pause"
    /\ ~BeforeFirstArrival
    /\ IdleBlank
    /\ draw_x = 0
    /\ frame.kind = "blank"

\* C21: the loop of matrix_display.py starts current_x_offset anew only
\* when the message has left the display on the left, that is when the
\* offset reached puts draw_x below -message_width, for a message narrower
\* than the display and for a wider one.
C21_WrapsOnlyOffScreen ==
    (display.drawn /\ display.wrapped)
        => display.width - IntOf(display.scrolled) < -display.message_width

\* the offset has started anew without a line read
C21_Witness ==
    /\ display.drawn
    /\ display.wrapped
    /\ display.line = None
    /\ display.current_x_offset = 0
    /\ display.scrolled > 0
====
